---- MODULE Spec2Model ----
(***************************************************************************)
(* Model of src/lib.rs of opa-wrapper: OPAModule (an Arc'd wasmtime Engine  *)
(* and Module) and OPAPolicy (an opa_wasm Policy and the wasmtime Store it  *)
(* lives in).  The wasmtime / opa_wasm calls the wrapper makes are          *)
(* operators over small representative input classes; the wrapper's own    *)
(* control flow (the `?` early returns, which store and which policy an    *)
(* eval is run against, what is shared and what is fresh) is in the        *)
(* actions.                                                                *)
(***************************************************************************)
EXTENDS Naturals, Sequences, FiniteSets

\* ------------------------------------------------------------------ bounds
MaxModules == 2    \* OPAModule values (loaded or cloned) in one behaviour
MaxPolicies == 2   \* OPAPolicy values built in one behaviour

\* ------------------------------------------------------------ input classes
\* Byte strings handed to from_wasm: the test policy, a module whose
\* entrypoint aborts, a module of an incompatible ABI, truncated bytecode.
HelloWasm == "hello_wasm"
AbortWasm == "abort_wasm"
BadAbiWasm == "badabi_wasm"
Truncated == "truncated"
WasmBytes == {HelloWasm, AbortWasm, BadAbiWasm, Truncated}

\* Bundle archives handed to from_bundle / get_policy_wasm_from_bundle.
Bundles == {"bundle_hello", "bundle_truncated", "bundle_corrupt"}

\* Paths handed to the *_file variants.
Paths == {"policy.wasm", "bundle.tar.gz", "missing"}

NoData == [some |-> FALSE]
Some(v) == [some |-> TRUE, v |-> v]
Worlds == {"world", "worlds"}
Unserializable == [unserializable |-> TRUE]
DataArgs == {NoData} \cup {Some([world |-> w]) : w \in Worlds} \cup {Some(Unserializable)}
Inputs == {[message |-> m] : m \in Worlds}
HelloEntry == "example/hello"
AbortEntry == "example/abort"
EntryNames == {HelloEntry, AbortEntry}

Ok(v) == [ok |-> TRUE, val |-> v]
Err(k) == [ok |-> FALSE, err |-> k]
Decision(b) == <<[result |-> b]>>
AnyOutcome == {Ok(Decision(b)) : b \in BOOLEAN} \cup
              {Err(k) : k \in {"NotFound", "Execute"}}

\* ------------------------------------------------- external collaborators
\* tokio::fs::read / the file behind a path.
ReadFile(path) ==
    CASE path = "policy.wasm" -> Ok(HelloWasm)
      [] path = "bundle.tar.gz" -> Ok("bundle_hello")
      [] OTHER -> Err("IO")

\* opa_wasm::load_bundle: the policy bytecode packed in a bundle archive.
LoadBundle(bundle) ==
    CASE bundle = "bundle_hello" -> Ok(HelloWasm)
      [] bundle = "bundle_truncated" -> Ok(Truncated)
      [] OTHER -> Err("Bundle")

\* opa_wasm::read_bundle: load_bundle over the file at a path.
ReadBundle(path) ==
    IF ReadFile(path).ok
    THEN IF ReadFile(path).val \in Bundles THEN LoadBundle(ReadFile(path).val)
                                           ELSE Err("Bundle")
    ELSE ReadFile(path)

\* wasmtime::Module::new: compiles well-formed bytecode only.
Compile(bytes) == IF bytes \in {HelloWasm, AbortWasm, BadAbiWasm} THEN Ok(bytes) ELSE Err("Compile")

\* opa_wasm::Runtime::new: asynchronous instantiation needs an engine with
\* async support, and checks the module's ABI.
Instantiate(engine, code) == IF ~engine.async \/ code = BadAbiWasm THEN Err("Instantiate") ELSE Ok(code)

\* serde: a data document or input is converted to the internal JSON value.
Serialize(v) == IF v = Unserializable THEN Err("Serialize") ELSE Ok(<<"json", v>>)

\* The entrypoints a compiled module exposes.
Entrypoints(code) ==
    CASE code = HelloWasm -> {HelloEntry}
      [] code = AbortWasm -> {AbortEntry}
      [] OTHER -> {}

\* Policy::default_entrypoint and Policy::abi_version of a compiled module.
DefaultEntrypoint(code) == IF code = HelloWasm THEN Some(HelloEntry) ELSE NoData
AbiVersion(code) == IF code = BadAbiWasm THEN "unsupported" ELSE "1.x"

\* The rule of the test policy: input.message == data.world (false when no
\* data document is bound).
HelloRule(data, input) ==
    IF data.some /\ Serialize(data.v).ok
    THEN Serialize(data.v).val[2].world = Serialize(input).val[2].message
    ELSE FALSE

\* opa_wasm::Policy::evaluate in a store that no trap or cancellation has
\* left in an unspecified state.
Evaluate(code, data, entrypoint, input) ==
    IF entrypoint \notin Entrypoints(code) THEN Err("NotFound")
    ELSE IF ~Serialize(input).ok THEN Err("Serialize")
    ELSE IF code = AbortWasm THEN Err("Execute")
    ELSE Ok(Decision(HelloRule(data, input)))

\* Whether an evaluate call entered the sandbox (and so touched the store).
EntersSandbox(code, entrypoint, input) ==
    entrypoint \in Entrypoints(code) /\ Serialize(input).ok

\* ------------------------------------------------------------------ state
VARIABLES
    compiled,    \* heap of compiled modules: id -> [engine, code, via, src]
    modules,     \* OPAModule values the caller holds: id -> [engine, module]
    policies,    \* OPAPolicy values the caller holds: id -> [policy, store, ...]
    stores,      \* wasmtime Stores: id -> [id, engine, module, data, sandbox]
    last         \* what the last call returned to the caller

vars == <<compiled, modules, policies, stores, last>>

None == [op |-> "none"]

Init ==
    /\ compiled = << >>
    /\ modules = << >>
    /\ policies = << >>
    /\ stores = << >>
    /\ last = None

\* The caller has taken what the call before returned.
Taken == last = None

\* The caller takes the returned value (an extracted byte buffer it may
\* instead hand to from_wasm).
Take ==
    /\ ~Taken
    /\ last' = None
    /\ UNCHANGED <<compiled, modules, policies, stores>>

\* f with key k bound to v.
Put(f, k, v) == [x \in DOMAIN f \cup {k} |-> IF x = k THEN v ELSE f[x]]

\* Ids are handed out in order.
NextId(f) == Cardinality(DOMAIN f) + 1

\* ---------------------------------------------------------------- loading
\* Mutant: only the first engine made is configured for async execution.
NewEngine_first(id) == [id |-> id, async |-> id = 1]

\* Config::new() with async_support(true), then Engine::new.
NewEngine(id) == [id |-> id, async |-> TRUE]

\* Mutant: the compile error is dropped and an OPAModule is made anyway.
from_wasm_unchecked(bytes, id) == Ok([engine |-> NewEngine(id), code |-> bytes])

\* OPAModule::from_wasm: a fresh engine, then the module compiled in it; a
\* compile error returns early and no OPAModule is made.
from_wasm(bytes, id) ==
    IF Compile(bytes).ok
    THEN Ok([engine |-> NewEngine(id), code |-> Compile(bytes).val])
    ELSE Compile(bytes)

\* OPAModule::from_wasm_file: read the file, then from_wasm.
from_wasm_file(path, id) ==
    IF ReadFile(path).ok THEN from_wasm(ReadFile(path).val, id) ELSE ReadFile(path)

\* OPAModule::from_bundle: load_bundle(reader).and_then(from_wasm).
from_bundle(bundle, id) ==
    IF LoadBundle(bundle).ok THEN from_wasm(LoadBundle(bundle).val, id) ELSE LoadBundle(bundle)

\* OPAModule::from_bundle_file: read_bundle(path).and_then(from_wasm).
from_bundle_file(path, id) ==
    IF ReadBundle(path).ok THEN from_wasm(ReadBundle(path).val, id) ELSE ReadBundle(path)

\* Mutant: the archive itself is returned instead of the bytecode in it.
get_policy_wasm_from_bundle_raw(bundle) ==
    IF LoadBundle(bundle).ok THEN Ok(bundle) ELSE LoadBundle(bundle)

\* OPAModule::get_policy_wasm_from_bundle: the extracted bytes, uncompiled.
get_policy_wasm_from_bundle(bundle) == LoadBundle(bundle)

\* OPAModule::get_policy_wasm_from_bundle_file.
get_policy_wasm_from_bundle_file(path) == ReadBundle(path)

\* The caller receives r from loading call op(arg): an OPAModule over a new
\* compiled module, or only the error.
Receive(op, arg, r) ==
    /\ NextId(modules) <= MaxModules
    /\ IF r.ok
       THEN /\ compiled' = Put(compiled, r.val.engine.id,
                               [engine |-> r.val.engine, code |-> r.val.code,
                                via |-> op, src |-> arg])
            /\ modules' = Put(modules, NextId(modules),
                              [engine |-> r.val.engine.id, module |-> r.val.engine.id])
            /\ last' = [op |-> op, arg |-> arg, res |-> Ok(NextId(modules))]
       ELSE /\ last' = [op |-> op, arg |-> arg, res |-> r]
            /\ UNCHANGED <<compiled, modules>>
    /\ UNCHANGED <<policies, stores>>

\* A byte buffer of the caller's own.
Own(bytes) == [bytes |-> bytes, from |-> "caller"]

\* The byte buffers a caller can pass to from_wasm: its own, or the one the
\* extraction call before returned.
CallerBytes ==
    {Own(b) : b \in WasmBytes} \cup
    (IF last.op \in {"get_policy_wasm_from_bundle", "get_policy_wasm_from_bundle_file"}
        /\ last.res.ok
     THEN {[bytes |-> last.res.val, from |-> last.arg]}
     ELSE {})

FromWasm ==
    \E buf \in CallerBytes :
        /\ Taken \/ buf.from # "caller"
        /\ Receive("from_wasm", buf, from_wasm(buf.bytes, NextId(modules)))

FromWasmFile ==
    \E path \in Paths :
        /\ Taken
        /\ Receive("from_wasm_file", path, from_wasm_file(path, NextId(modules)))

FromBundle ==
    \E bundle \in Bundles :
        /\ Taken
        /\ Receive("from_bundle", bundle, from_bundle(bundle, NextId(modules)))

FromBundleFile ==
    \E path \in Paths :
        /\ Taken
        /\ Receive("from_bundle_file", path, from_bundle_file(path, NextId(modules)))

\* The caller receives extracted bytes (or only the error); nothing is compiled.
ReceiveBytes(op, arg, r) ==
    /\ Taken
    /\ last' = [op |-> op, arg |-> arg, res |-> r]
    /\ UNCHANGED <<compiled, modules, policies, stores>>

GetPolicyWasmFromBundle ==
    \E bundle \in Bundles :
        ReceiveBytes("get_policy_wasm_from_bundle", bundle, get_policy_wasm_from_bundle(bundle))

GetPolicyWasmFromBundleFile ==
    \E path \in Paths :
        ReceiveBytes("get_policy_wasm_from_bundle_file", path,
                     get_policy_wasm_from_bundle_file(path))

\* Mutant: a clone that copies the compiled module instead of sharing it.
clone_deep(h, fresh) == [engine |-> h.engine, module |-> fresh]

\* #[derive(Clone)] on OPAModule: both Arcs are cloned, so the new value
\* points at the same engine and the same compiled module.  (fresh is the id
\* a copy of the compiled module would get.)
clone(h, fresh) == h

\* The caller clones an OPAModule value.
CloneModule ==
    \E h \in DOMAIN modules :
        /\ NextId(modules) <= MaxModules
        /\ Taken
        /\ LET c == clone(modules[h], NextId(modules))
           IN /\ modules' = Put(modules, NextId(modules), c)
              /\ compiled' = IF c.module \in DOMAIN compiled THEN compiled
                             ELSE Put(compiled, c.module, compiled[modules[h].module])
        /\ last' = [op |-> "clone", arg |-> h, res |-> Ok(NextId(modules))]
        /\ UNCHANGED <<policies, stores>>

\* ------------------------------------------------------------ build_policy
\* Store::new(&self.engine, ()) and the module instantiated in it.
NewStore(h, sid) ==
    [id |-> sid, engine |-> h.engine, module |-> h.module, data |-> NoData,
     sandbox |-> "fresh"]

\* Mutant: the data document is never bound (without_data on both paths).
build_policy_without_data(h, data, sid) ==
    IF ~Instantiate(compiled[h.module].engine, compiled[h.module].code).ok
    THEN Instantiate(compiled[h.module].engine, compiled[h.module].code)
    ELSE IF data.some /\ ~Serialize(data.v).ok
         THEN Serialize(data.v)
         ELSE Ok([policy |-> h.module, store |-> NewStore(h, sid)])

\* OPAModule::build_policy: a fresh store, Runtime::new(..)?, then with_data
\* or without_data (..)?; the OPAPolicy owns the policy and the store.
build_policy(h, data, sid) ==
    IF ~Instantiate(compiled[h.module].engine, compiled[h.module].code).ok
    THEN Instantiate(compiled[h.module].engine, compiled[h.module].code)
    ELSE IF data.some
         THEN IF Serialize(data.v).ok
              THEN Ok([policy |-> h.module, store |-> [NewStore(h, sid) EXCEPT !.data = data]])
              ELSE Serialize(data.v)
         ELSE Ok([policy |-> h.module, store |-> NewStore(h, sid)])

BuildPolicy ==
    \E h \in DOMAIN modules, data \in DataArgs :
        /\ NextId(policies) <= MaxPolicies
        /\ Taken
        /\ LET r == build_policy(modules[h], data, NextId(policies))
           IN IF r.ok
              THEN /\ stores' = Put(stores, r.val.store.id, r.val.store)
                   /\ policies' = Put(policies, NextId(policies),
                                      [policy |-> r.val.policy, store |-> r.val.store.id,
                                       data |-> data, inflight |-> 0])
                   /\ last' = [op |-> "build_policy", arg |-> <<h, data>>,
                               res |-> Ok(NextId(policies))]
              ELSE /\ last' = [op |-> "build_policy", arg |-> <<h, data>>, res |-> r]
                   /\ UNCHANGED <<stores, policies>>
        /\ UNCHANGED <<compiled, modules>>

\* -------------------------------------------------------------------- eval
\* What policy.evaluate can return in store st: what the module computes, or
\* anything once a trap or a cancellation has left the sandbox unspecified.
Outcomes(st, entrypoint, input) ==
    IF st.sandbox = "unspecified" /\ EntersSandbox(compiled[st.module].code, entrypoint, input)
    THEN AnyOutcome
    ELSE {Evaluate(compiled[st.module].code, st.data, entrypoint, input)}

\* The store after that evaluate call returned out.
After(st, entrypoint, input, out) ==
    IF EntersSandbox(compiled[st.module].code, entrypoint, input)
    THEN [st EXCEPT !.sandbox = IF @ = "unspecified" \/ out = Err("Execute")
                                THEN "unspecified" ELSE "used"]
    ELSE st

\* What an evaluation call returned, and where it ran.
Entry(op, p, st, data, entrypoint, input, out) ==
    [op |-> op, policy |-> p, module |-> st.module, engine |-> st.engine,
     data |-> data, entrypoint |-> entrypoint, input |-> input,
     store |-> st.id, seen |-> st.data, sandbox |-> st.sandbox, res |-> out]

\* Mutant: eval through a shared reference, so a second eval can start.
may_borrow_shared(p) == policies[p].inflight < 2

\* OPAPolicy::eval takes &mut self: it can start only when no other eval
\* holds the instance.
may_borrow(p) == policies[p].inflight = 0

\* Mutant: one store per compiled module, shared by its instances.
store_of_shared(p) ==
    CHOOSE s \in DOMAIN stores :
        /\ stores[s].module = policies[p].policy
        /\ \A t \in DOMAIN stores : stores[t].module = policies[p].policy => s <= t

\* OPAPolicy::eval evaluates self.policy in self.store.
store_of(p) == policies[p].store

\* Mutant: an unknown entrypoint falls back to the module's default one.
policy_eval_default(st, entrypoint, input) ==
    Outcomes(st,
             IF entrypoint \notin Entrypoints(compiled[st.module].code)
                /\ DefaultEntrypoint(compiled[st.module].code).some
             THEN DefaultEntrypoint(compiled[st.module].code).v
             ELSE entrypoint,
             input)

\* OPAPolicy::eval hands its entrypoint and input to policy.evaluate as they
\* are and returns what it returns.
policy_eval(st, entrypoint, input) == Outcomes(st, entrypoint, input)

\* The PolicyInstance state of the design: Built, Evaluating or Faulted.
State(p) ==
    IF policies[p].inflight > 0 THEN "Evaluating"
    ELSE IF stores[policies[p].store].sandbox = "unspecified" THEN "Faulted"
    ELSE "Built"

\* OPAPolicy::eval is called: the future holds the instance until it resolves.
EvalBegin ==
    \E p \in DOMAIN policies :
        /\ may_borrow(p)
        /\ Taken
        /\ policies' = [policies EXCEPT ![p].inflight = @ + 1]
        /\ UNCHANGED <<compiled, modules, stores, last>>

\* The awaited policy.evaluate(&mut self.store, entrypoint, &input) resolves.
\* (Nothing reads the arguments of a suspended call, so they are drawn here.)
EvalEnd ==
    \E p \in DOMAIN policies, entrypoint \in EntryNames, input \in Inputs :
        /\ policies[p].inflight > 0
        /\ Taken
        /\ LET st == stores[store_of(p)]
           IN \E out \in policy_eval(st, entrypoint, input) :
                /\ stores' = [stores EXCEPT ![st.id] = After(st, entrypoint, input, out)]
                /\ policies' = [policies EXCEPT ![p].inflight = @ - 1]
                /\ last' = Entry("OPAPolicy::eval", p, st, policies[p].data,
                                 entrypoint, input, out)
        /\ UNCHANGED <<compiled, modules>>

\* The caller drops the eval future while it is suspended: nothing is
\* returned and the store is left wherever the sandbox was.
EvalCancel ==
    \E p \in DOMAIN policies :
        /\ policies[p].inflight > 0
        /\ Taken
        /\ stores' = [stores EXCEPT ![store_of(p)].sandbox = "unspecified"]
        /\ policies' = [policies EXCEPT ![p].inflight = @ - 1]
        /\ UNCHANGED <<compiled, modules, last>>

\* Mutant: an instance of the module the caller already holds is reused.
eval_instance_cached(h, data) ==
    IF \E s \in DOMAIN stores : stores[s].module = h.module
    THEN Ok([policy |-> h.module,
             store |-> stores[CHOOSE s \in DOMAIN stores : stores[s].module = h.module]])
    ELSE build_policy(h, data, 0)

\* OPAModule::eval builds its instance with self.build_policy(data).
eval_instance(h, data) == build_policy(h, data, 0)

\* OPAModule::eval: build_policy(data)?, then one eval on the new instance.
module_eval(h, data, entrypoint, input) ==
    IF eval_instance(h, data).ok
    THEN policy_eval(eval_instance(h, data).val.store, entrypoint, input)
    ELSE {eval_instance(h, data)}

\* OPAModule::eval is called; the instance it built is dropped with the call.
ModuleEval ==
    \E h \in DOMAIN modules, data \in DataArgs, entrypoint \in EntryNames,
       input \in Inputs :
        /\ Taken
        /\ \E out \in module_eval(modules[h], data, entrypoint, input) :
             last' = Entry("OPAModule::eval", 0,
                           IF eval_instance(modules[h], data).ok
                           THEN eval_instance(modules[h], data).val.store
                           ELSE NewStore(modules[h], 0),
                           data, entrypoint, input, out)
        /\ UNCHANGED <<compiled, modules, policies, stores>>

\* ----------------------------------------------------------- introspection
\* OPAPolicy::default_entrypoint / entrypoints / abi_version: &self getters.
Introspect ==
    \E p \in DOMAIN policies :
        /\ policies[p].inflight = 0
        /\ Taken
        /\ last' = [op |-> "introspect", policy |-> p,
                    default_entrypoint |-> DefaultEntrypoint(compiled[policies[p].policy].code),
                    entrypoints |-> Entrypoints(compiled[policies[p].policy].code),
                    abi_version |-> AbiVersion(compiled[policies[p].policy].code)]
        /\ UNCHANGED <<compiled, modules, policies, stores>>

\* ------------------------------------------------------------ specification
Next ==
    \/ FromWasm
    \/ FromWasmFile
    \/ FromBundle
    \/ FromBundleFile
    \/ GetPolicyWasmFromBundle
    \/ GetPolicyWasmFromBundleFile
    \/ CloneModule
    \/ BuildPolicy
    \/ EvalBegin
    \/ EvalEnd
    \/ EvalCancel
    \/ ModuleEval
    \/ Introspect
    \/ Take

Spec == Init /\ [][Next]_vars

\* Loading and building only.
NextLoad ==
    \/ FromWasm
    \/ FromWasmFile
    \/ FromBundle
    \/ FromBundleFile
    \/ GetPolicyWasmFromBundle
    \/ GetPolicyWasmFromBundleFile
    \/ CloneModule
    \/ BuildPolicy
    \/ Take

SpecLoad == Init /\ [][NextLoad]_vars

\* Building and evaluating, over modules loaded from bytes or files.
NextEval ==
    \/ FromWasm
    \/ FromWasmFile
    \/ FromBundleFile
    \/ CloneModule
    \/ BuildPolicy
    \/ EvalBegin
    \/ EvalEnd
    \/ EvalCancel
    \/ ModuleEval
    \/ Introspect
    \/ Take

SpecEval == Init /\ [][NextEval]_vars

\* ------------------------------------------------------------------ claims
OneShot == last.op = "OPAModule::eval"
InstanceEval == last.op = "OPAPolicy::eval"

\* What a freshly built instance of freshly compiled code returns: a function
\* of the code and the call's own arguments.
FreshResult(code, data, entrypoint, input) ==
    IF ~Instantiate([id |-> 0, async |-> TRUE], code).ok
    THEN Instantiate([id |-> 0, async |-> TRUE], code)
    ELSE IF data.some /\ ~Serialize(data.v).ok
         THEN Serialize(data.v)
         ELSE Evaluate(code, data, entrypoint, input)

\* The instance whose eval resolved or was cancelled in this step, if any.
Resolved(p) == p \in DOMAIN policies /\ policies'[p].inflight < policies[p].inflight

\* C1: on the example/hello module (input.message == data.world), an
\* instance with data {"world": w} evaluated on {"message": m} returns
\* [{"result": m = w}], through build_policy + OPAPolicy::eval and through
\* the one-shot OPAModule::eval, whichever way the module was loaded.
C1_HelloScenario ==
    ((OneShot \/ InstanceEval)
        /\ compiled[last.module].code = HelloWasm
        /\ last.entrypoint = HelloEntry
        /\ last.data \in {Some([world |-> w]) : w \in Worlds}
        /\ last.sandbox # "unspecified")
    => last.res = Ok(Decision(last.input.message = last.data.v.world))

\* C1 witness: the first call of the tests on a module from a bundle file,
\* while a module from a wasm file is held too.
C1_Witness ==
    /\ InstanceEval
    /\ compiled[last.module].via = "from_bundle_file"
    /\ last.data = Some([world |-> "world"])
    /\ last.entrypoint = HelloEntry
    /\ last.input = [message |-> "world"]
    /\ last.res = Ok(Decision(TRUE))
    /\ \E h \in DOMAIN modules : compiled[modules[h].module].via = "from_wasm_file"

\* C2: a one-shot OPAModule::eval runs in a store of its own, fresh and held
\* by no instance, bound to the call's own data, and what it returns is a
\* function of the module's code and the call's (data, entrypoint, input).
C2_OneShotIsolated ==
    OneShot =>
        /\ last.store \notin DOMAIN stores
        /\ last.sandbox = "fresh"
        /\ last.res.ok => last.seen = last.data
        /\ last.res = FreshResult(compiled[last.module].code, last.data,
                                  last.entrypoint, last.input)

\* C2 witness: a one-shot call on a module of which the caller holds a used
\* instance with another data document.
C2_Witness ==
    /\ OneShot
    /\ last.res.ok
    /\ \E p \in DOMAIN policies :
         /\ policies[p].policy = last.module
         /\ stores[policies[p].store].sandbox # "fresh"
         /\ stores[policies[p].store].data # last.data

\* C3: when an eval on an instance resolves (or is cancelled), it ran in that
\* instance's own store, on the data document the instance was built with,
\* and every other instance's store and data document are left as they were.
C3_Isolation ==
    [][\A p \in DOMAIN policies :
         Resolved(p) =>
           /\ \A q \in DOMAIN stores : q # policies[p].store => stores'[q] = stores[q]
           /\ \A q \in DOMAIN policies : q # p => policies'[q] = policies[q]
           /\ last' # None =>
                /\ last'.policy = p
                /\ last'.store = p
                /\ last'.seen = policies[p].data]_vars

\* C3 witness: two instances of one compiled module with different data
\* documents, one evaluated while the other is suspended in an eval.
C3_Witness ==
    /\ InstanceEval
    /\ last.res.ok
    /\ \E q \in DOMAIN policies :
         /\ q # last.policy
         /\ policies[q].policy = last.module
         /\ policies[q].data.some /\ last.data.some
         /\ policies[q].data # last.data
         /\ policies[q].inflight > 0
         /\ stores[policies[q].store].sandbox = "fresh"

\* C4: an OPAPolicy::eval with a name outside the module's entrypoints
\* returns the NotFound error and changes no store, so a Built instance is
\* Built again; and an eval with a name among the entrypoints, on an instance
\* that is not Faulted, returns what a freshly built instance returns.
C4_NotFoundReusable ==
    [][\A p \in DOMAIN policies :
         (Resolved(p) /\ last' # None) =>
           /\ last'.entrypoint \notin Entrypoints(compiled[last'.module].code) =>
                /\ last'.res = Err("NotFound")
                /\ stores' = stores
                /\ stores[policies[p].store].sandbox # "unspecified" => State(p)' = "Built"
           /\ (last'.entrypoint \in Entrypoints(compiled[last'.module].code)
                 /\ stores[policies[p].store].sandbox # "unspecified") =>
                last'.res = FreshResult(compiled[last'.module].code, policies[p].data,
                                        last'.entrypoint, last'.input)]_vars

\* C4 witness: an eval has failed with NotFound on an instance that is Built.
C4_Witness ==
    /\ InstanceEval
    /\ last.res = Err("NotFound")
    /\ last.policy \in DOMAIN policies
    /\ State(last.policy) = "Built"

\* C5 as claimed: no eval begins on an instance that is Faulted.
C5_NoEvalOnFaulted ==
    [][\A p \in DOMAIN policies : State(p) = "Faulted" => State(p)' # "Evaluating"]_vars

\* C5 as amended: the one-shot OPAModule::eval never evaluates in the store of
\* a Faulted instance (its instance is built by the call itself); for
\* OPAPolicy::eval, not reusing a Faulted instance is left to the caller.
C5_OneShotNeverOnFaulted ==
    OneShot =>
        /\ last.sandbox # "unspecified"
        /\ \A p \in DOMAIN policies : policies[p].store # last.store

\* C5 witness: a one-shot call on a module of which the caller holds a
\* Faulted instance.
C5_Witness ==
    /\ OneShot
    /\ \E p \in DOMAIN policies :
         policies[p].policy = last.module /\ State(p) = "Faulted"

\* C6: an instance never has more than one eval in flight, and an eval that
\* succeeds on an instance that was Built leaves it Built.
C6_OneInFlight ==
    [][/\ \A p \in DOMAIN policies' : policies'[p].inflight <= 1
       /\ \A p \in DOMAIN policies :
            (Resolved(p) /\ last' # None /\ last'.res.ok
               /\ stores[policies[p].store].sandbox # "unspecified")
            => State(p)' = "Built"]_vars

\* C6 witness: an eval has succeeded on one instance, which is Built again,
\* while another instance is Evaluating.
C6_Witness ==
    /\ InstanceEval
    /\ last.res.ok
    /\ State(last.policy) = "Built"
    /\ \E q \in DOMAIN policies : State(q) = "Evaluating"

\* C7: the caller never holds an OPAModule whose bytecode does not compile,
\* nor an OPAPolicy whose module does not instantiate or whose data document
\* does not serialize or is not bound; a failed call returns only the error.
C7_AtomicFailure ==
    /\ \A h \in DOMAIN modules :
         /\ modules[h].module \in DOMAIN compiled
         /\ Compile(compiled[modules[h].module].code).ok
    /\ \A p \in DOMAIN policies :
         /\ policies[p].store \in DOMAIN stores
         /\ Instantiate(compiled[policies[p].policy].engine,
                        compiled[policies[p].policy].code).ok
         /\ policies[p].data.some => Serialize(policies[p].data.v).ok
         /\ stores[policies[p].store].data = policies[p].data
    /\ (last.op \in {"from_wasm", "from_wasm_file", "from_bundle", "from_bundle_file"}
          /\ last.res.ok) => last.res.val \in DOMAIN modules
    /\ (last.op = "build_policy" /\ last.res.ok) => last.res.val \in DOMAIN policies

\* C7 witness: loading a bundle of truncated bytecode has failed and the
\* caller holds nothing.
C7_Witness ==
    /\ last.op = "from_bundle"
    /\ last.arg = "bundle_truncated"
    /\ last.res = Err("Compile")
    /\ modules = << >>

BundleLoaders == {"from_bundle", "from_bundle_file"}
Extractors == {"get_policy_wasm_from_bundle", "get_policy_wasm_from_bundle_file"}

\* The extraction call that reads what loader via reads.
ExtractorOf(via) ==
    IF via = "from_bundle" THEN "get_policy_wasm_from_bundle"
    ELSE "get_policy_wasm_from_bundle_file"

\* The handles of modules loaded from bundle (or bundle file) src.
LoadedFrom(src) ==
    {h \in DOMAIN modules : compiled[modules[h].module].via \in BundleLoaders
                            /\ compiled[modules[h].module].src = src}

\* C8: for a bundle (or bundle file) that from_bundle (from_bundle_file) has
\* loaded, the extraction call on it succeeds, from_wasm on the extracted
\* bytes succeeds, and the module it makes evaluates every (data, entrypoint,
\* input) as the module loaded from the bundle does.
C8_BundleRoundTrip ==
    /\ (last.op \in Extractors
          /\ \E h \in LoadedFrom(last.arg) :
               ExtractorOf(compiled[modules[h].module].via) = last.op)
       => last.res.ok
    /\ (last.op = "from_wasm" /\ LoadedFrom(last.arg.from) # {}) => last.res.ok
    /\ \A h1, h2 \in DOMAIN modules :
         (/\ compiled[modules[h2].module].via = "from_wasm"
          /\ h1 \in LoadedFrom(compiled[modules[h2].module].src.from))
         => \A data \in DataArgs, entrypoint \in EntryNames, input \in Inputs :
              module_eval(modules[h1], data, entrypoint, input) =
              module_eval(modules[h2], data, entrypoint, input)

\* C8 witness: a module from a bundle and a module compiled from the bytes
\* extracted from that bundle.
C8_Witness ==
    \E h1, h2 \in DOMAIN modules :
        /\ compiled[modules[h1].module].via = "from_bundle"
        /\ compiled[modules[h2].module].via = "from_wasm"
        /\ compiled[modules[h2].module].src.from = compiled[modules[h1].module].src

Loaders == {"from_wasm", "from_wasm_file", "from_bundle", "from_bundle_file"}

\* C10: no step changes a compiled module or its engine; only a loading call
\* adds one, so a clone and every instance point at a compiled module that
\* already was there.
C10_Immutable ==
    [][/\ \A c \in DOMAIN compiled : c \in DOMAIN compiled' /\ compiled'[c] = compiled[c]
       /\ DOMAIN compiled' # DOMAIN compiled => last'.op \in Loaders
       /\ \A h \in DOMAIN modules' : modules'[h].module \in DOMAIN compiled'
                                     /\ modules'[h].engine = compiled'[modules'[h].module].engine.id
       /\ \A p \in DOMAIN policies' : policies'[p].policy \in DOMAIN compiled'
                                      /\ stores'[policies'[p].store].module = policies'[p].policy]_vars

\* C10 witness: a module and its clone, an instance built from each, one of
\* them evaluated, and one compiled module in all.
C10_Witness ==
    /\ Cardinality(DOMAIN compiled) = 1
    /\ Cardinality(DOMAIN modules) = 2
    /\ Cardinality(DOMAIN policies) = 2
    /\ \E p \in DOMAIN policies : stores[policies[p].store].sandbox = "used"

====
